---- MODULE Spec2Model ----
(***************************************************************************)
(* A model of assessment_analyzer.py: the column classifier, the PII       *)
(* guard, the score normaliser, the mastery aggregator, and the Streamlit  *)
(* script that calls them once per user interaction on st.session_state.   *)
(*                                                                         *)
(* Python strings are sequences of one-character strings, so that          *)
(* endswith, startswith, slicing, lower, strip and the regular expressions *)
(* are computed character by character, as the code computes them.         *)
(***************************************************************************)
EXTENDS Integers, Sequences, FiniteSets, TLC

VARIABLES
    pc,               \* which harness phase / "app" for the script
    \* --- find_question_columns harness
    c_columns, c_suffix, c_result,
    \* --- validate_pii harness
    p_columns, p_verdict,
    \* --- pre_process_scores / run_mastery_analysis harness
    heap, m_raw, m_questions, m_groups, m_proc, m_results,
    \* --- the Streamlit script: widgets outside session_state
    uploaded_file, score_suffix, correct_notation,
    \* --- st.session_state
    ss_keys, target_groups, processed_df, question_list,
    \* --- what the last script run rendered, and what it did
    rendered, last_run

harness_vars == <<c_columns, c_suffix, c_result, p_columns, p_verdict,
                  heap, m_raw, m_questions, m_groups, m_proc, m_results>>
app_vars == <<uploaded_file, score_suffix, correct_notation, ss_keys,
              target_groups, processed_df, question_list, rendered, last_run>>
vars == <<pc, harness_vars, app_vars>>

----------------------------------------------------------------------------
(* Bounds of the model *)

MaxCols == 2          \* columns of a header given to find_question_columns
MaxPiiCols == 2       \* columns of a header given to validate_pii
MaxRows == 2          \* rows of a table given to the normaliser/aggregator
MaxGroupList == 1     \* groups given to run_mastery_analysis
MaxStored == 2        \* groups the session stores before the form is left alone

----------------------------------------------------------------------------
(* Python string primitives *)

Min2(a, b) == IF a <= b THEN a ELSE b
Max2(a, b) == IF a >= b THEN a ELSE b

\* s[:stop] for any integer stop (negative counts from the end; -0 is 0)
PySliceTo(s, stop) ==
    LET n == Len(s)
        e == IF stop < 0 THEN Max2(n + stop, 0) ELSE Min2(stop, n)
    IN  SubSeq(s, 1, e)

\* s.endswith(suffix)
EndsWith(s, suffix) ==
    /\ Len(suffix) <= Len(s)
    /\ SubSeq(s, Len(s) - Len(suffix) + 1, Len(s)) = suffix

\* s.startswith(prefix)
StartsWith(s, prefix) ==
    /\ Len(prefix) <= Len(s)
    /\ SubSeq(s, 1, Len(prefix)) = prefix

----------------------------------------------------------------------------
(* String literals of the program and of the inputs *)

sScore == <<" ", "[", "S", "c", "o", "r", "e", "]">>      \* " [Score]"
sBracket == <<"]">>
sEmpty == <<>>
s100 == <<"1", ".", "0", "0">>                             \* "1.00"
sQ1 == <<"Q", "1">>
sQ2 == <<"Q", "2">>
sQ3 == <<"Q", "3">>

----------------------------------------------------------------------------
(* find_question_columns *)

find_question_columns(columns, suffix) ==
    LET RECURSIVE Loop(_, _)
        Loop(i, question_names) ==
            IF i > Len(columns) THEN question_names
            ELSE LET col == columns[i]
                 IN  IF EndsWith(col, suffix)
                     THEN Loop(i + 1,
                               Append(question_names,
                                      PySliceTo(col, 0 - Len(suffix))))
                     ELSE Loop(i + 1, question_names)
    IN  Loop(1, <<>>)

----------------------------------------------------------------------------
(* Characters: str.lower, \s, \w as Python's re module sees them (ASCII) *)

UpperChars == <<"A", "B", "C", "D", "E", "F", "G", "H", "I", "J", "K", "L", "M",
                "N", "O", "P", "Q", "R", "S", "T", "U", "V", "W", "X", "Y", "Z">>
LowerChars == <<"a", "b", "c", "d", "e", "f", "g", "h", "i", "j", "k", "l", "m",
                "n", "o", "p", "q", "r", "s", "t", "u", "v", "w", "x", "y", "z">>
Digits == {"0", "1", "2", "3", "4", "5", "6", "7", "8", "9"}
Range(f) == {f[i] : i \in DOMAIN f}
Whitespace == {" ", "\t", "\n"}                     \* \s

UpperSet == Range(UpperChars)
AlnumSet == Range(UpperChars) \cup Range(LowerChars) \cup Digits
LowerOf == [c \in UpperSet |-> LowerChars[CHOOSE i \in 1..26 : UpperChars[i] = c]]

LowerChar(c) == IF c \in UpperSet THEN LowerOf[c] ELSE c

IsAlnum(c) == c \in AlnumSet
IsWordChar(c) == IsAlnum(c) \/ c = "_"              \* \w

\* s.lower()
Lower(s) == [i \in 1..Len(s) |-> LowerChar(s[i])]

\* s.strip()
Strip(s) ==
    LET keep == {i \in 1..Len(s) : s[i] \notin Whitespace}
    IN  IF keep = {} THEN <<>>
        ELSE SubSeq(s, CHOOSE i \in keep : \A j \in keep : i <= j,
                       CHOOSE i \in keep : \A j \in keep : i >= j)

\* s.replace("_", " ")
ReplaceUnderscore(s) == [i \in 1..Len(s) |-> IF s[i] = "_" THEN " " ELSE s[i]]

\* re.sub(r"\s+", " ", s)
RECURSIVE CollapseWhitespace(_)
CollapseWhitespace(s) ==
    IF s = <<>> THEN <<>>
    ELSE IF Head(s) \in Whitespace
         THEN IF Len(s) > 1 /\ s[2] \in Whitespace
              THEN CollapseWhitespace(Tail(s))
              ELSE <<" ">> \o CollapseWhitespace(Tail(s))
         ELSE <<Head(s)>> \o CollapseWhitespace(Tail(s))

----------------------------------------------------------------------------
(* Words of the PII patterns *)

w_email == <<"e", "m", "a", "i", "l">>
w_phone == <<"p", "h", "o", "n", "e">>
w_mobile == <<"m", "o", "b", "i", "l", "e">>
w_cell == <<"c", "e", "l", "l">>
w_ssn == <<"s", "s", "n">>
w_social == <<"s", "o", "c", "i", "a", "l">>
w_security == <<"s", "e", "c", "u", "r", "i", "t", "y">>
w_address == <<"a", "d", "d", "r", "e", "s", "s">>
w_street == <<"s", "t", "r", "e", "e", "t">>
w_st == <<"s", "t">>
w_ave == <<"a", "v", "e">>
w_road == <<"r", "o", "a", "d">>
w_rd == <<"r", "d">>
w_apartment == <<"a", "p", "a", "r", "t", "m", "e", "n", "t">>
w_apt == <<"a", "p", "t">>
w_unit == <<"u", "n", "i", "t">>
w_first == <<"f", "i", "r", "s", "t">>
w_last == <<"l", "a", "s", "t">>
w_full == <<"f", "u", "l", "l">>
w_student == <<"s", "t", "u", "d", "e", "n", "t">>
w_name == <<"n", "a", "m", "e">>
w_guardian == <<"g", "u", "a", "r", "d", "i", "a", "n">>
w_dob == <<"d", "o", "b">>
w_date == <<"d", "a", "t", "e">>
w_of == <<"o", "f">>
w_birth == <<"b", "i", "r", "t", "h">>
w_id == <<"i", "d">>
w_sid == <<"s", "i", "d">>
w_assess == <<"a", "s", "s", "e", "s", "s">>
w_ment == <<"m", "e", "n", "t">>
w_dot == <<".">>

----------------------------------------------------------------------------
(* Regular expressions: an alternative is a sequence of elements           *)
(*   "str"  a literal string          "opt"  an optional literal string    *)
(*   "ws+"  \s+                       "gap*" [_\s]*                        *)

Str(s) == [t |-> "str", s |-> s]
Opt(s) == [t |-> "opt", s |-> s]
Ws1 == [t |-> "ws+", s |-> <<>>]
Gap0 == [t |-> "gap*", s |-> <<>>]

\* the literal lit at position i of s, under re.IGNORECASE
LitAt(s, i, lit) ==
    /\ i + Len(lit) - 1 <= Len(s)
    /\ \A k \in 1..Len(lit) : LowerChar(s[i + k - 1]) = LowerChar(lit[k])

\* the positions i+n (n >= least) such that s[i .. i+n-1] lies in class
RunEnds(s, i, class, least) ==
    {i + n : n \in {m \in least..(Len(s) - i + 1) :
                       \A k \in 0..(m - 1) : s[i + k] \in class}}

\* the positions just after a match of elements k.. of alt starting at i
RECURSIVE MatchEnds(_, _, _, _)
MatchEnds(alt, k, s, i) ==
    IF k > Len(alt) THEN {i}
    ELSE LET e == alt[k]
             After(js) == UNION {MatchEnds(alt, k + 1, s, j) : j \in js}
         IN  CASE e.t = "str" ->
                    IF LitAt(s, i, e.s) THEN After({i + Len(e.s)}) ELSE {}
               [] e.t = "opt" ->
                    After({i} \cup (IF LitAt(s, i, e.s) THEN {i + Len(e.s)} ELSE {}))
               [] e.t = "ws+" -> After(RunEnds(s, i, Whitespace, 1))
               [] e.t = "gap*" -> After(RunEnds(s, i, Whitespace \cup {"_"}, 0))

\* \b at position i (between s[i-1] and s[i])
WordBoundary(s, i) ==
    LET left == i > 1 /\ IsWordChar(s[i - 1])
        right == i <= Len(s) /\ IsWordChar(s[i])
    IN  left # right

\* re.compile(r"\b(alt1|alt2|...)\b", re.IGNORECASE).search(s) is not None
Search(alts, s) ==
    \E a \in DOMAIN alts : \E i \in 1..(Len(s) + 1) :
        /\ WordBoundary(s, i)
        /\ \E j \in MatchEnds(alts[a], 1, s, i) : WordBoundary(s, j)

PII_ALLOWLIST_PATTERN ==
    << <<Str(w_student), Gap0, Str(w_assess), Opt(w_ment), Gap0, Str(w_id)>>,
       <<Str(w_student), Gap0, Str(w_id)>>,
       <<Str(w_student \o w_id)>>,
       <<Str(w_sid)>> >>

PII_BLOCKLIST_PATTERNS ==
    << << <<Str(w_email)>> >>,
       << <<Str(w_phone)>>, <<Str(w_mobile)>>, <<Str(w_cell)>> >>,
       << <<Str(w_ssn)>>, <<Str(w_social), Ws1, Str(w_security)>> >>,
       << <<Str(w_address)>>, <<Str(w_street)>>, <<Str(w_st), Opt(w_dot)>>,
          <<Str(w_ave)>>, <<Str(w_road)>>, <<Str(w_rd), Opt(w_dot)>>,
          <<Str(w_apartment)>>, <<Str(w_apt), Opt(w_dot)>>, <<Str(w_unit)>> >>,
       << <<Str(w_first), Ws1, Str(w_name)>>, <<Str(w_last), Ws1, Str(w_name)>>,
          <<Str(w_full), Ws1, Str(w_name)>>, <<Str(w_student), Ws1, Str(w_name)>>,
          <<Str(w_guardian)>> >>,
       << <<Str(w_dob)>>, <<Str(w_date), Ws1, Str(w_of), Ws1, Str(w_birth)>>,
          <<Str(w_birth), Ws1, Str(w_date)>> >> >>

----------------------------------------------------------------------------
(* validate_pii *)

\* a normalisation that forgets .replace("_", " ")
NormalizeColumn_keep_underscores(col) == CollapseWhitespace(Lower(Strip(col)))

NormalizeColumn(col) == CollapseWhitespace(ReplaceUnderscore(Lower(Strip(col))))

validate_pii(columns) ==
    LET RECURSIVE Loop(_, _)
        Loop(i, offending) ==
            IF i > Len(columns) THEN offending
            ELSE LET col == columns[i]
                     normalized == NormalizeColumn(col)
                 IN  IF Search(PII_ALLOWLIST_PATTERN, normalized)
                     THEN Loop(i + 1, offending)                       \* continue
                     ELSE IF \E p \in DOMAIN PII_BLOCKLIST_PATTERNS :
                                 Search(PII_BLOCKLIST_PATTERNS[p], normalized)
                          THEN Loop(i + 1, Append(offending, col))     \* append; break
                          ELSE Loop(i + 1, offending)
        offending_columns == Loop(1, <<>>)
    IN  [is_valid |-> Len(offending_columns) = 0,
         offending_columns |-> offending_columns]

----------------------------------------------------------------------------
(* Inputs of the validate_pii harness: column names pre \o tok \o post *)

\* a block token, an allowed identifier or a neutral word, in several spellings
PiiToks ==
    { <<"e", "m", "a", "i", "l">>,   \* 'email'
      <<"E", "m", "a", "i", "l">>,   \* 'Email'
      <<"p", "h", "o", "n", "e">>,   \* 'phone'
      <<"m", "o", "b", "i", "l", "e">>,   \* 'mobile'
      <<"c", "e", "l", "l">>,   \* 'cell'
      <<"s", "s", "n">>,   \* 'ssn'
      <<"a", "d", "d", "r", "e", "s", "s">>,   \* 'address'
      <<"s", "t", "r", "e", "e", "t">>,   \* 'street'
      <<"s", "t">>,   \* 'st'
      <<"s", "t", ".">>,   \* 'st.'
      <<"a", "v", "e">>,   \* 'ave'
      <<"r", "o", "a", "d">>,   \* 'road'
      <<"r", "d">>,   \* 'rd'
      <<"a", "p", "a", "r", "t", "m", "e", "n", "t">>,   \* 'apartment'
      <<"a", "p", "t">>,   \* 'apt'
      <<"u", "n", "i", "t">>,   \* 'unit'
      <<"f", "i", "r", "s", "t", " ", "n", "a", "m", "e">>,   \* 'first name'
      <<"l", "a", "s", "t", "_", "n", "a", "m", "e">>,   \* 'last_name'
      <<"f", "u", "l", "l", " ", " ", "n", "a", "m", "e">>,   \* 'full  name'
      <<"s", "t", "u", "d", "e", "n", "t", " ", "n", "a", "m", "e">>,   \* 'student name'
      <<"g", "u", "a", "r", "d", "i", "a", "n">>,   \* 'guardian'
      <<"d", "o", "b">>,   \* 'dob'
      <<"D", "O", "B">>,   \* 'DOB'
      <<"d", "a", "t", "e", " ", "o", "f", " ", "b", "i", "r", "t", "h">>,   \* 'date of birth'
      <<"b", "i", "r", "t", "h", "\t", "d", "a", "t", "e">>,   \* 'birth<tab>date'
      <<"I", "D">>,   \* 'ID'
      <<"s", "t", "u", "d", "e", "n", "t", " ", "i", "d">>,   \* 'student id'
      <<"S", "t", "u", "d", "e", "n", "t", "_", "A", "s", "s", "e", "s", "s", "m", "e", "n", "t", "_", "I", "D">>,   \* 'Student_Assessment_ID'
      <<"s", "t", "u", "d", "e", "n", "t", "i", "d">>,   \* 'studentid'
      <<"s", "i", "d">>,   \* 'sid'
      <<"s", "t", "u", "d", "e", "n", "t", " ", "a", "s", "s", "e", "s", "s", " ", "i", "d">>,   \* 'student assess id'
      <<"q", "1">>,   \* 'q1'
      <<"n", "a", "m", "e">>,   \* 'name'
      <<"b", "i", "r", "t", "h">> } \* 'birth'

\* what precedes it: nothing, a word and a separator, or a glued letter
PiiPres ==
    { <<>>,   \* ''
      <<"S", "t", "u", "d", "e", "n", "t", " ">>,   \* 'Student '
      <<"P", "a", "r", "e", "n", "t", " ">>,   \* 'Parent '
      <<"p", "a", "r", "e", "n", "t", "_">>,   \* 'parent_'
      <<"x">>,   \* 'x'
      <<"S", "I", "D", " ">>,   \* 'SID '
      <<" ">> } \* ' '

\* what follows it
PiiPosts ==
    { <<>>,   \* ''
      <<" ", "A", "d", "d", "r", "e", "s", "s">>,   \* ' Address'
      <<"s">>,   \* 's'
      <<"_", "i", "d">>,   \* '_id'
      <<".">>,   \* '.'
      <<"2">> } \* '2'

PiiNames == {pre \o tok \o post : pre \in PiiPres, tok \in PiiToks, post \in PiiPosts}

\* the other columns of the header
PiiOtherCols ==
    { <<"Q", "1", " ", "[", "S", "c", "o", "r", "e", "]">>,    \* "Q1 [Score]"
      <<"H", "o", "m", "e", "_", "P", "h", "o", "n", "e">> }   \* "Home_Phone"

n_StudentID == <<"S", "t", "u", "d", "e", "n", "t", " ", "I", "D">>
n_StudentEmail == <<"S", "t", "u", "d", "e", "n", "t", " ", "E", "m", "a", "i", "l">>
n_ParentEmailAddress ==
    <<"P", "a", "r", "e", "n", "t", " ", "E", "m", "a", "i", "l", " ",
      "A", "d", "d", "r", "e", "s", "s">>
n_Student_Assessment_ID ==
    <<"S", "t", "u", "d", "e", "n", "t", "_", "A", "s", "s", "e", "s", "s", "m", "e", "n", "t",
      "_", "I", "D">>

SeqsUpTo(S, n) == UNION {[1..k -> S] : k \in 0..n}

\* headers: one column under test, then up to MaxPiiCols - 1 other columns
PiiHeaders ==
    {<<c>> \o rest : c \in PiiNames, rest \in SeqsUpTo(PiiOtherCols, MaxPiiCols - 1)}

----------------------------------------------------------------------------
(* Tables (pandas DataFrame): ordered column names, one cell sequence per  *)
(* column, and the row count. A cell is a string, an empty cell (NaN) or   *)
(* an integer. pd.read_csv makes column names unique, so a name selects at *)
(* most one column.                                                        *)

StrCell(s) == [k |-> "str", s |-> s, n |-> 0]
NanCell == [k |-> "nan", s |-> <<>>, n |-> 0]
IntCell(n) == [k |-> "int", s |-> <<>>, n |-> n]

DigitChars == <<"0", "1", "2", "3", "4", "5", "6", "7", "8", "9">>

\* str(n) for a natural number n
RECURSIVE NatStr(_)
NatStr(n) == IF n < 10 THEN <<DigitChars[n + 1]>>
             ELSE NatStr(n \div 10) \o <<DigitChars[(n % 10) + 1]>>

\* str(x) for a cell x
PyStr(x) ==
    CASE x.k = "str" -> x.s
      [] x.k = "nan" -> <<"n", "a", "n">>
      [] x.k = "int" -> NatStr(x.n)

HasColumn(df, name) == \E i \in DOMAIN df.columns : df.columns[i] = name
ColumnIndex(df, name) == CHOOSE i \in DOMAIN df.columns : df.columns[i] = name

----------------------------------------------------------------------------
(* pre_process_scores, on a heap of DataFrame objects (a sequence indexed  *)
(* by object reference), so that copying and aliasing differ               *)

\* processed_df = raw_df  (no copy: both names denote one object)
DataFrameCopy_alias(hp, ref) == [heap |-> hp, ref |-> ref]

\* raw_df.copy(): a new object with the same columns and cells
DataFrameCopy(hp, ref) == [heap |-> Append(hp, hp[ref]), ref |-> Len(hp) + 1]

\* lambda x: 1 if str(x).startswith(prefix) else 0
ScoreCell(x, prefix) == IF StartsWith(PyStr(x), prefix) THEN IntCell(1) ELSE IntCell(0)

\* processed_df[name] = processed_df[name].apply(...) on object ref
ApplyScore(h, ref, c, prefix) ==
    [h EXCEPT ![ref].cells[c] =
        [r \in 1..h[ref].nrows |-> ScoreCell(h[ref].cells[c][r], prefix)]]

\* the loop over question_list, on the copy
PreProcessLoop(copied, questions, prefix, suffix) ==
    LET RECURSIVE Loop(_, _)
        Loop(i, h) ==
            IF i > Len(questions)
            THEN [heap |-> h, ref |-> copied.ref, exc |-> "none"]
            ELSE IF ~HasColumn(h[copied.ref], questions[i] \o suffix)
                 THEN [heap |-> h, ref |-> copied.ref, exc |-> "KeyError"]
                 ELSE Loop(i + 1,
                           ApplyScore(h, copied.ref,
                                      ColumnIndex(h[copied.ref], questions[i] \o suffix),
                                      prefix))
    IN  Loop(1, copied.heap)

pre_process_scores(hp, raw_ref, questions, prefix, suffix) ==
    PreProcessLoop(DataFrameCopy(hp, raw_ref), questions, prefix, suffix)

----------------------------------------------------------------------------
(* run_mastery_analysis *)

RECURSIVE SumSeq(_)
SumSeq(xs) == IF xs = <<>> THEN 0 ELSE Head(xs) + SumSeq(Tail(xs))

\* f"{(count / total) * 100:.1f}%": the decimal with one fractional digit
\* nearest to 100 * count / total (no tie arises for total < 16)
FormatPercent(count, total) ==
    LET tenths == (2000 * count + total) \div (2 * total)
    IN  NatStr(tenths \div 10) \o <<".">> \o NatStr(tenths % 10) \o <<"%">>

\* (student_scores >= min_c) & (student_scores <= max_c), with <= max_c as <
InRange_exclusive_max(score, min_c, max_c) == score >= min_c /\ score < max_c

\* (student_scores >= min_c) & (student_scores <= max_c), with >= min_c as >
InRange_exclusive_min(score, min_c, max_c) == score > min_c /\ score <= max_c

\* (student_scores >= min_c) & (student_scores <= max_c)
InRange(score, min_c, max_c) == score >= min_c /\ score <= max_c

\* processed_df[score_cols_to_sum].sum(axis=1): one sum per row
StudentScores(df, score_cols_to_sum) ==
    [r \in 1..df.nrows |->
        SumSeq([q \in DOMAIN score_cols_to_sum |->
                   df.cells[ColumnIndex(df, score_cols_to_sum[q])][r].n])]

\* ((student_scores >= min_c) & (student_scores <= max_c)).sum()
StudentsInRange(student_scores, min_c, max_c) ==
    SumSeq([r \in DOMAIN student_scores |->
               IF InRange(student_scores[r], min_c, max_c) THEN 1 ELSE 0])

\* the dictionary appended to results
GroupResult(group, students_in_range, total_students) ==
    [name |-> group.name,
     count |-> students_in_range,
     total |-> total_students,
     percent |-> FormatPercent(students_in_range, total_students)]

NoResult == [name |-> "", count |-> 0, total |-> 0, percent |-> <<>>]

\* the body of the loop for one group, once its columns are named;
\* a text cell cannot be compared with min_c (pandas 2 raises TypeError)
GroupOutcome(df, group, score_cols_to_sum) ==
    IF \E q \in DOMAIN score_cols_to_sum : ~HasColumn(df, score_cols_to_sum[q])
    THEN [exc |-> "KeyError", result |-> NoResult]
    ELSE IF \E q \in DOMAIN score_cols_to_sum : \E r \in 1..df.nrows :
                df.cells[ColumnIndex(df, score_cols_to_sum[q])][r].k # "int"
         THEN [exc |-> "TypeError", result |-> NoResult]
         ELSE [exc |-> "none",
               result |-> GroupResult(group,
                              StudentsInRange(StudentScores(df, score_cols_to_sum),
                                              group.min_correct, group.max_correct),
                              df.nrows)]

run_mastery_analysis(df, groups, suffix) ==
    LET RECURSIVE Loop(_, _)
        Loop(g, results) ==
            IF g > Len(groups) THEN [exc |-> "none", results |-> results]
            ELSE LET out == GroupOutcome(df, groups[g],
                                [q \in 1..Len(groups[g].questions) |->
                                    groups[g].questions[q] \o suffix])
                 IN  IF out.exc # "none"
                     THEN [exc |-> out.exc, results |-> results]
                     ELSE Loop(g + 1, Append(results, out.result))
    IN  IF df.nrows = 0 THEN [exc |-> "none", results |-> <<>>]
        ELSE Loop(1, <<>>)

----------------------------------------------------------------------------
(* The uploaded files the user can choose, as pd.read_csv reads them *)

sPts == <<" ", "[", "P", "t", "s", "]">>                  \* " [Pts]"
c_correct == StrCell(<<"1", ".", "0", "0", " ", "/", " ", "1">>)     \* "1.00 / 1"
c_wrong == StrCell(<<"0", ".", "0", "0", " ", "/", " ", "1">>)       \* "0.00 / 1"
c_text == StrCell(<<"A">>)

NoTable == [columns |-> <<>>, cells |-> <<>>, nrows |-> 0]

\* Scenario A of the specification, with an identifier column
TableA ==
    [columns |-> <<n_StudentID, sQ1 \o sScore, sQ2 \o sScore>>,
     cells |-> << <<c_text, c_text>>, <<c_correct, c_correct>>, <<c_wrong, c_correct>> >>,
     nrows |-> 2]

\* another assessment: one question only, left unanswered (an empty cell)
TableB ==
    [columns |-> <<sQ1 \o sScore>>,
     cells |-> << <<NanCell>> >>,
     nrows |-> 1]

\* an export that carries a personal-data column
TablePII ==
    [columns |-> <<n_StudentEmail, sQ1 \o sScore>>,
     cells |-> << <<c_text>>, <<c_correct>> >>,
     nrows |-> 1]

Files ==
    [fA |-> [parses |-> TRUE, df |-> TableA],
     fB |-> [parses |-> TRUE, df |-> TableB],
     fPII |-> [parses |-> TRUE, df |-> TablePII],
     fBad |-> [parses |-> FALSE, df |-> NoTable]]      \* pd.read_csv raises

FileIds == DOMAIN Files
Suffixes == {sScore, sPts, sEmpty}      \* what the user may type as score suffix
TargetNames == {"", "T1"}               \* what the user may type as target name

----------------------------------------------------------------------------
(* One run of the script. r is the run's state: st.session_state (keys,    *)
(* tg, pdf, ql), how the run ended, what it did and what it rendered.      *)

SessionKeys == {"target_groups", "processed_df", "question_list"}
NoneDf == [is_none |-> TRUE, df |-> NoTable]
SomeDf(df) == [is_none |-> FALSE, df |-> df]
NoClick == [kind |-> "none", index |-> 0, name |-> "", checked |-> {}, lo |-> 0, hi |-> 0]

StartRun(keys, tg, pdf, ql) ==
    [keys |-> keys, tg |-> tg, pdf |-> pdf, ql |-> ql,
     halted |-> FALSE,           \* st.stop(), st.rerun() or an uncaught exception
     exc |-> "none",             \* the uncaught exception that ended the run
     caught |-> "none",          \* the exception handled at "except Exception"
     rerun |-> FALSE,            \* st.rerun() was called in the script body
     file_read |-> FALSE, parse_failed |-> FALSE,
     pii_flagged |-> FALSE, shown_offending |-> <<>>,
     no_questions |-> FALSE, suffix_warning |-> FALSE,
     preprocessed |-> FALSE, sanity_warning |-> FALSE,
     form_outcome |-> "none",
     upload_error |-> FALSE,     \* "Please upload a file first."
     analysed |-> FALSE, results |-> <<>>,
     form |-> FALSE, n_delete |-> 0, run_button |-> FALSE, clear_button |-> FALSE]

\* st.session_state.clear()
SessionClear(r) == [r EXCEPT !.keys = {}, !.tg = <<>>, !.pdf = NoneDf, !.ql = <<>>]

\* an exception that no handler catches ends the run
Uncaught(r, e) == [r EXCEPT !.exc = e, !.halted = TRUE]

\* delete_target, the on_click callback: it runs before the script body, where
\* st.rerun() does nothing
delete_target(r, index) ==
    [r EXCEPT !.tg = SubSeq(r.tg, 1, index) \o SubSeq(r.tg, index + 2, Len(r.tg))]

\* if 'k' not in st.session_state: st.session_state.k = <default>
InitSessionState(r) ==
    [r EXCEPT !.keys = r.keys \cup SessionKeys,
              !.tg = IF "target_groups" \in r.keys THEN r.tg ELSE <<>>,
              !.pdf = IF "processed_df" \in r.keys THEN r.pdf ELSE NoneDf,
              !.ql = IF "question_list" \in r.keys THEN r.ql ELSE <<>>]

\* the PII branch without st.stop(): the run goes on after clearing
PiiBlock_no_stop(r, offending_columns) ==
    [SessionClear(r) EXCEPT !.shown_offending = offending_columns]

\* st.error(... offending_columns); st.session_state.clear(); st.stop()
PiiBlock(r, offending_columns) ==
    [SessionClear(r) EXCEPT !.shown_offending = offending_columns, !.halted = TRUE]

\* st.warning(no columns labeled suffix); st.session_state.clear()
NoQuestionsBranch(r) ==
    [SessionClear(r) EXCEPT !.no_questions = TRUE, !.suffix_warning = TRUE]

\* percent_correct <= 20 over the score columns of the processed table
SanityWarning(df, questions, suffix) ==
    LET total_ones ==
            SumSeq([q \in DOMAIN questions |->
                SumSeq([i \in 1..df.nrows |->
                    df.cells[ColumnIndex(df, questions[q] \o suffix)][i].n])])
        total_cells == df.nrows * Len(questions)
    IN  IF total_cells > 0 THEN total_ones * 100 <= 20 * total_cells ELSE TRUE

\* the validation that forgets the threshold test
FormValidation_no_threshold(target_name, selected_questions, max_selected) ==
    IF target_name = "" THEN "no_name"
    ELSE IF selected_questions = <<>> THEN "no_questions"
    ELSE "added"

\* if not target_name / elif not selected_questions / elif max > len / else
FormValidation(target_name, selected_questions, max_selected) ==
    IF target_name = "" THEN "no_name"
    ELSE IF selected_questions = <<>> THEN "no_questions"
    ELSE IF max_selected > Len(selected_questions) THEN "threshold"
    ELSE "added"

\* [q for q in st.session_state.question_list if st.session_state["check_" + q]];
\* checked holds the positions of the ticked checkboxes
SelectedQuestions(ql, checked) ==
    LET RECURSIVE Loop(_, _)
        Loop(i, selected) ==
            IF i > Len(ql) THEN selected
            ELSE Loop(i + 1, IF i \in checked THEN Append(selected, ql[i]) ELSE selected)
    IN  Loop(1, <<>>)

\* the branches of the validation, for the outcome it gave
FormStore(r, outcome, new_group) ==
    IF outcome = "added"
    THEN [r EXCEPT !.tg = Append(r.tg, new_group), !.form_outcome = outcome]
    ELSE [r EXCEPT !.form_outcome = outcome]

\* if submit_button: ... st.session_state.target_groups.append(new_group)
FormValidate(r, click, selected_questions) ==
    FormStore(r, FormValidation(click.name, selected_questions, click.hi),
              [name |-> click.name, questions |-> selected_questions,
               min_correct |-> click.lo, max_correct |-> click.hi])

FormSubmit(r, click) == FormValidate(r, click, SelectedQuestions(r.ql, click.checked))

\* st.session_state.processed_df = ...; .question_list = ...; the sanity
\* warning; the form; the submitted form, if it was
CacheAndForm(r, processed, questions, suffix, click) ==
    IF click.kind = "submit"
    THEN FormSubmit([r EXCEPT !.pdf = SomeDf(processed), !.ql = questions,
                              !.keys = r.keys \cup {"processed_df", "question_list"},
                              !.sanity_warning = SanityWarning(processed, questions, suffix),
                              !.form = TRUE], click)
    ELSE [r EXCEPT !.pdf = SomeDf(processed), !.ql = questions,
                   !.keys = r.keys \cup {"processed_df", "question_list"},
                   !.sanity_warning = SanityWarning(processed, questions, suffix),
                   !.form = TRUE]

\* what follows the call of pre_process_scores; a KeyError it raised is caught
\* by "except Exception"
AfterPreProcess(r, pp, questions, suffix, click) ==
    IF pp.exc # "none" THEN [r EXCEPT !.caught = pp.exc]
    ELSE CacheAndForm(r, pp.heap[pp.ref], questions, suffix, click)

\* the else branch of "if not question_list"
ProcessBranch(r, df, questions, prefix, suffix, click) ==
    AfterPreProcess([r EXCEPT !.preprocessed = TRUE],
                    pre_process_scores(<<df>>, 1, questions, prefix, suffix),
                    questions, suffix, click)

\* question_list = find_question_columns(...); if not question_list: ... else: ...
AfterClassify(r, df, questions, prefix, suffix, click) ==
    IF questions = <<>> THEN NoQuestionsBranch(r)
    ELSE ProcessBranch(r, df, questions, prefix, suffix, click)

\* what follows the PII gate: nothing if the run was stopped
AfterPiiGate(r, df, prefix, suffix, click) ==
    IF r.halted THEN r
    ELSE AfterClassify(r, df, find_question_columns(df.columns, suffix),
                       prefix, suffix, click)

\* is_valid, offending_columns = validate_pii(...); if not is_valid: ...
PiiGate(r, verdict) ==
    IF ~verdict.is_valid
    THEN PiiBlock([r EXCEPT !.file_read = TRUE, !.pii_flagged = TRUE],
                  verdict.offending_columns)
    ELSE [r EXCEPT !.file_read = TRUE]

\* validate_pii(list(df.columns)) for the table read from each file
PiiVerdict == [f \in {g \in FileIds : Files[g].parses} |-> validate_pii(Files[f].df.columns)]

\* MAIN: if uploaded_file is not None: try: ... except Exception: st.error(...)
Main(r, file, prefix, suffix, click) ==
    IF file = "none" THEN r
    ELSE IF ~Files[file].parses
         THEN [r EXCEPT !.parse_failed = TRUE, !.caught = "ParserError"]
         ELSE AfterPiiGate(PiiGate(r, PiiVerdict[file]),
                           Files[file].df, prefix, suffix, click)

\* what follows the call of run_mastery_analysis: its exception is not caught
AfterAnalysis(r, res) ==
    IF res.exc # "none" THEN Uncaught(r, res.exc)
    ELSE [r EXCEPT !.results = res.results]

\* if st.button("Run Mastery Analysis"): ...
RunMasteryButton(r, suffix) ==
    IF "processed_df" \notin r.keys THEN Uncaught(r, "AttributeError")
    ELSE IF r.pdf.is_none THEN [r EXCEPT !.upload_error = TRUE]
    ELSE AfterAnalysis([r EXCEPT !.analysed = TRUE],
                       run_mastery_analysis(r.pdf.df, r.tg, suffix))

\* with col2: if st.button("Clear All Targets"): ...; st.rerun()
ClearAllButton(r, click) ==
    IF r.halted THEN r
    ELSE IF click.kind = "clear"
         THEN [r EXCEPT !.clear_button = TRUE, !.tg = <<>>,
                        !.rerun = TRUE, !.halted = TRUE]
         ELSE [r EXCEPT !.clear_button = TRUE]

\* with col1: the button "Run Mastery Analysis"
RunButton(r, suffix, click) ==
    IF click.kind = "run" THEN RunMasteryButton(r, suffix) ELSE r

\* if st.session_state.target_groups: the list, the delete buttons and the
\* two buttons below it
TargetsSection(r, suffix, click) ==
    IF r.halted THEN r
    ELSE IF "target_groups" \notin r.keys THEN Uncaught(r, "AttributeError")
    ELSE IF r.tg = <<>> THEN r
    ELSE ClearAllButton(
             RunButton([r EXCEPT !.n_delete = Len(r.tg), !.run_button = TRUE],
                       suffix, click),
             click)

\* the script body, top to bottom
ScriptBody(r, file, prefix, suffix, click) ==
    TargetsSection(Main(InitSessionState(r), file, prefix, suffix, click), suffix, click)

\* the script once more if it called st.rerun()
Rerun(r, file, prefix, suffix) ==
    IF r.rerun
    THEN ScriptBody(StartRun(r.keys, r.tg, r.pdf, r.ql), file, prefix, suffix, NoClick)
    ELSE r

\* the on_click callback, if a delete button was clicked
Callback(r, click) ==
    IF click.kind = "delete" THEN delete_target(r, click.index) ELSE r

\* one user interaction: the callback, the script, the rerun it asked for
ScriptRun(keys, tg, pdf, ql, file, prefix, suffix, click) ==
    Rerun(ScriptBody(Callback(StartRun(keys, tg, pdf, ql), click),
                     file, prefix, suffix, click),
          file, prefix, suffix)

----------------------------------------------------------------------------
(* The state machine of the application: one action per user interaction.  *)
(* The file uploader and the two sidebar inputs keep their values in the   *)
(* browser; st.session_state.clear() does not empty them.                  *)

Rendered(r) ==
    [form |-> r.form, n_delete |-> r.n_delete,
     run_button |-> r.run_button, clear_button |-> r.clear_button]

LastRun(r) ==
    [exc |-> r.exc, caught |-> r.caught, stopped |-> r.halted /\ r.exc = "none",
     file_read |-> r.file_read, parse_failed |-> r.parse_failed,
     pii_flagged |-> r.pii_flagged, shown_offending |-> r.shown_offending,
     no_questions |-> r.no_questions, suffix_warning |-> r.suffix_warning,
     preprocessed |-> r.preprocessed, sanity_warning |-> r.sanity_warning,
     form_outcome |-> r.form_outcome, upload_error |-> r.upload_error,
     analysed |-> r.analysed, results |-> r.results]

HarnessIdle ==
    /\ c_columns = <<>> /\ c_suffix = <<>> /\ c_result = <<>>
    /\ p_columns = <<>>
    /\ p_verdict = [is_valid |-> TRUE, offending_columns |-> <<>>]
    /\ heap = <<>> /\ m_raw = NoTable /\ m_questions = <<>> /\ m_groups = <<>>
    /\ m_proc = [ref |-> 0, exc |-> "none"]
    /\ m_results = [exc |-> "none", results |-> <<>>]

\* the page as first loaded: the script has run once, with no file
\* (the sidebar's score notation is left at its default "1.00" throughout)
AppStart ==
    \E r \in {ScriptRun({}, <<>>, NoneDf, <<>>, "none", s100, sScore, NoClick)} :
        /\ uploaded_file = "none" /\ score_suffix = sScore /\ correct_notation = s100
        /\ ss_keys = r.keys /\ target_groups = r.tg
        /\ processed_df = r.pdf /\ question_list = r.ql
        /\ rendered = Rendered(r) /\ last_run = LastRun(r)

Init == pc = "app" /\ HarnessIdle /\ AppStart

Interact(file, prefix, suffix, click) ==
    \E r \in {ScriptRun(ss_keys, target_groups, processed_df, question_list,
                        file, prefix, suffix, click)} :
        /\ uploaded_file' = file
        /\ correct_notation' = prefix
        /\ score_suffix' = suffix
        /\ ss_keys' = r.keys
        /\ target_groups' = r.tg
        /\ processed_df' = r.pdf
        /\ question_list' = r.ql
        /\ rendered' = Rendered(r)
        /\ last_run' = LastRun(r)
        /\ UNCHANGED <<pc, harness_vars>>

\* the user chooses a file in the uploader (or replaces the one chosen)
Upload(f) ==
    /\ pc = "app" /\ f # uploaded_file
    /\ Interact(f, correct_notation, score_suffix, NoClick)

\* the user removes the file from the uploader
RemoveFile ==
    /\ pc = "app" /\ uploaded_file # "none"
    /\ Interact("none", correct_notation, score_suffix, NoClick)

\* the user types another score suffix in the sidebar
SetSuffix(s) ==
    /\ pc = "app" /\ s # score_suffix
    /\ Interact(uploaded_file, correct_notation, s, NoClick)

\* the user presses "Add Learning Target" on the form the last run rendered
SubmitForm(name, checked, lo, hi) ==
    /\ pc = "app" /\ rendered.form
    /\ Len(target_groups) < MaxStored
    /\ checked \subseteq 1..Len(question_list)
    /\ lo <= hi /\ hi <= Len(question_list)
    /\ Interact(uploaded_file, correct_notation, score_suffix,
                [kind |-> "submit", index |-> 0, name |-> name,
                 checked |-> checked, lo |-> lo, hi |-> hi])

\* the user presses the delete button of target i
ClickDelete(i) ==
    /\ pc = "app" /\ i \in 1..rendered.n_delete
    /\ Interact(uploaded_file, correct_notation, score_suffix,
                [NoClick EXCEPT !.kind = "delete", !.index = i - 1])

ClickRun ==
    /\ pc = "app" /\ rendered.run_button
    /\ Interact(uploaded_file, correct_notation, score_suffix,
                [NoClick EXCEPT !.kind = "run"])

ClickClearAll ==
    /\ pc = "app" /\ rendered.clear_button
    /\ Interact(uploaded_file, correct_notation, score_suffix,
                [NoClick EXCEPT !.kind = "clear"])

MaxQuestions == 2    \* the longest question list of the files above

Next ==
    \/ \E f \in FileIds : Upload(f)
    \/ RemoveFile
    \/ \E s \in Suffixes : SetSuffix(s)
    \/ \E name \in TargetNames, checked \in SUBSET (1..MaxQuestions),
          lo \in 0..MaxQuestions, hi \in 0..MaxQuestions :
          SubmitForm(name, checked, lo, hi)
    \/ \E i \in 1..MaxStored : ClickDelete(i)
    \/ ClickRun
    \/ ClickClearAll

Spec == Init /\ [][Next]_vars

----------------------------------------------------------------------------
(* find_question_columns on arbitrary headers and suffixes *)

ClassifyNames ==
    { sQ1 \o sScore, sQ2 \o sScore, sQ1, sScore,
      <<"Q", "1", " ", "[", "s", "c", "o", "r", "e", "]">>,    \* "Q1 [score]"
      sQ1 \o sScore \o <<" ">> }                               \* "Q1 [Score] "

AppIdle ==
    \E r \in {ScriptRun({}, <<>>, NoneDf, <<>>, "none", s100, sScore, NoClick)} :
        /\ uploaded_file = "none" /\ score_suffix = sScore /\ correct_notation = s100
        /\ ss_keys = {} /\ target_groups = <<>>
        /\ processed_df = NoneDf /\ question_list = <<>>
        /\ rendered = Rendered(r) /\ last_run = LastRun(r)

InitClassify ==
    /\ pc = "classify_in"
    /\ c_columns \in SeqsUpTo(ClassifyNames, MaxCols)
    /\ c_suffix \in Suffixes \cup {sBracket}
    /\ c_result = <<>>
    /\ p_columns = <<>>
    /\ p_verdict = [is_valid |-> TRUE, offending_columns |-> <<>>]
    /\ heap = <<>> /\ m_raw = NoTable /\ m_questions = <<>> /\ m_groups = <<>>
    /\ m_proc = [ref |-> 0, exc |-> "none"]
    /\ m_results = [exc |-> "none", results |-> <<>>]
    /\ AppIdle

Classify ==
    /\ pc = "classify_in"
    /\ c_result' = find_question_columns(c_columns, c_suffix)
    /\ pc' = "classify_out"
    /\ UNCHANGED <<c_columns, c_suffix, p_columns, p_verdict,
                   heap, m_raw, m_questions, m_groups, m_proc, m_results, app_vars>>

NextClassify == Classify

SpecClassify == InitClassify /\ [][NextClassify]_vars

----------------------------------------------------------------------------
(* validate_pii on arbitrary headers *)

InitPii ==
    /\ pc = "pii_in"
    /\ p_columns \in PiiHeaders
    /\ p_verdict = [is_valid |-> TRUE, offending_columns |-> <<>>]
    /\ c_columns = <<>> /\ c_suffix = <<>> /\ c_result = <<>>
    /\ heap = <<>> /\ m_raw = NoTable /\ m_questions = <<>> /\ m_groups = <<>>
    /\ m_proc = [ref |-> 0, exc |-> "none"]
    /\ m_results = [exc |-> "none", results |-> <<>>]
    /\ AppIdle

ValidatePii ==
    /\ pc = "pii_in"
    /\ p_verdict' = validate_pii(p_columns)
    /\ pc' = "pii_out"
    /\ UNCHANGED <<c_columns, c_suffix, c_result, p_columns,
                   heap, m_raw, m_questions, m_groups, m_proc, m_results, app_vars>>

NextPii == ValidatePii

SpecPii == InitPii /\ [][NextPii]_vars

----------------------------------------------------------------------------
(* pre_process_scores, then run_mastery_analysis, on arbitrary tables and  *)
(* learning-target groups of the data model                                *)

\* the raw tables: an answer column and two score columns, n rows
RawTables(n) ==
    {[columns |-> <<sQ1, sQ1 \o sScore, sQ2 \o sScore>>,
      cells |-> <<[r \in 1..n |-> c_text], c1, c2>>,
      nrows |-> n] : c1 \in [1..n -> {c_correct, c_wrong}],
                     c2 \in [1..n -> {c_correct, c_wrong}]}

\* the question lists handed to pre_process_scores; Q3 has no score column
QuestionLists == {<<sQ1, sQ2>>, <<sQ1>>, <<sQ2>>, <<>>, <<sQ3>>}

\* LearningTargetGroup: a non-empty selection of the questions and a range
\* 0 <= min_correct <= max_correct <= number of selected questions
GroupsOver(questions) ==
    {[name |-> "T1", questions |-> SelectedQuestions(questions, S),
      min_correct |-> lo, max_correct |-> hi] :
        S \in (SUBSET (1..Len(questions))) \ {{}},
        lo \in 0..Len(questions), hi \in 0..Len(questions)}

ValidGroup(g) ==
    /\ g.name # ""
    /\ g.questions # <<>>
    /\ 0 <= g.min_correct /\ g.min_correct <= g.max_correct
    /\ g.max_correct <= Len(g.questions)

InitMastery ==
    /\ pc = "mastery_in"
    /\ m_raw \in UNION {RawTables(n) : n \in 0..MaxRows}
    /\ heap = <<m_raw>>
    /\ m_questions \in QuestionLists
    /\ m_groups \in SeqsUpTo({g \in GroupsOver(m_questions) : ValidGroup(g)}, MaxGroupList)
    /\ m_proc = [ref |-> 0, exc |-> "none"]
    /\ m_results = [exc |-> "none", results |-> <<>>]
    /\ c_columns = <<>> /\ c_suffix = <<>> /\ c_result = <<>>
    /\ p_columns = <<>>
    /\ p_verdict = [is_valid |-> TRUE, offending_columns |-> <<>>]
    /\ AppIdle

PreProcess ==
    /\ pc = "mastery_in"
    /\ LET pp == pre_process_scores(heap, 1, m_questions, s100, sScore)
       IN  /\ heap' = pp.heap
           /\ m_proc' = [ref |-> pp.ref, exc |-> pp.exc]
    /\ pc' = "mastery_processed"
    /\ UNCHANGED <<c_columns, c_suffix, c_result, p_columns, p_verdict,
                   m_raw, m_questions, m_groups, m_results, app_vars>>

Analyse ==
    /\ pc = "mastery_processed" /\ m_proc.exc = "none"
    /\ m_results' = run_mastery_analysis(heap[m_proc.ref], m_groups, sScore)
    /\ pc' = "mastery_done"
    /\ UNCHANGED <<c_columns, c_suffix, c_result, p_columns, p_verdict,
                   heap, m_raw, m_questions, m_groups, m_proc, app_vars>>

NextMastery == PreProcess \/ Analyse

SpecMastery == InitMastery /\ [][NextMastery]_vars

----------------------------------------------------------------------------
(* What the claims speak of, stated without the code's operators *)

\* the base names of the columns that end with suffix, in order
RECURSIVE BaseNames(_, _)
BaseNames(columns, suffix) ==
    IF columns = <<>> THEN <<>>
    ELSE LET col == Head(columns)
             n == Len(col) - Len(suffix)
             ends == n >= 0 /\ \A k \in 1..Len(suffix) : col[n + k] = suffix[k]
         IN  (IF ends THEN <<[k \in 1..n |-> col[k]]>> ELSE <<>>)
             \o BaseNames(Tail(columns), suffix)

\* a word of a name is delimited by the ends of the name or by characters that
\* are neither letters nor digits
Delimited(s, i) == i < 1 \/ i > Len(s) \/ ~IsAlnum(s[i])
Separators == Whitespace \cup {"_"}

\* the words tok[k], tok[k+1], ... stand in s from position i on, separated
\* by runs of spaces or underscores, the last one ending a word
RECURSIVE WordsAt(_, _, _, _)
WordsAt(s, i, tok, k) ==
    LET e == i + Len(tok[k])
    IN  /\ e - 1 <= Len(s)
        /\ \A m \in 1..Len(tok[k]) : LowerChar(s[i + m - 1]) = tok[k][m]
        /\ IF k = Len(tok) THEN Delimited(s, e)
           ELSE \E j \in (e + 1)..Len(s) :
                    /\ \A m \in e..(j - 1) : s[m] \in Separators
                    /\ WordsAt(s, j, tok, k + 1)

\* the name contains the token (a sequence of words) as whole words
ContainsToken(s, tok) ==
    \E i \in 1..Len(s) : Delimited(s, i - 1) /\ WordsAt(s, i, tok, 1)

\* the block-pattern tokens the specification lists
BlockTokens ==
    { <<w_email>>, <<w_phone>>, <<w_mobile>>, <<w_cell>>, <<w_ssn>>,
      <<w_address>>, <<w_street>>, <<w_st>>, <<w_ave>>, <<w_road>>, <<w_rd>>,
      <<w_apartment>>, <<w_apt>>, <<w_unit>>,
      <<w_first, w_name>>, <<w_last, w_name>>, <<w_full, w_name>>,
      <<w_student, w_name>>, <<w_guardian>>,
      <<w_dob>>, <<w_date, w_of, w_birth>>, <<w_birth, w_date>> }

\* the student assessment identifier, its words run together or separated
AllowedForms ==
    { <<w_sid>>, <<w_student \o w_id>>, <<w_student, w_id>>,
      <<w_student, w_assess, w_id>>, <<w_student, w_assess \o w_ment, w_id>>,
      <<w_student \o w_assess, w_id>>, <<w_student \o w_assess \o w_ment, w_id>>,
      <<w_student, w_assess \o w_id>>, <<w_student, w_assess \o w_ment \o w_id>>,
      <<w_student \o w_assess \o w_id>>, <<w_student \o w_assess \o w_ment \o w_id>> }

HasBlockToken(col) == \E tok \in BlockTokens : ContainsToken(col, tok)
HasAllowedForm(col) == \E tok \in AllowedForms : ContainsToken(col, tok)
Flagged(col) == \E i \in DOMAIN p_verdict.offending_columns :
                    p_verdict.offending_columns[i] = col

\* the number of correct answers of row r over the questions of group g, in
\* the binary table df
CorrectCount(df, g, suffix, r) ==
    Cardinality({q \in DOMAIN g.questions :
        \E c \in DOMAIN df.columns :
            df.columns[c] = g.questions[q] \o suffix /\ df.cells[c][r] = IntCell(1)})

\* the rows of df whose number of correct answers lies in the range of g
RowsInRange(df, g, suffix) ==
    {r \in 1..df.nrows : /\ g.min_correct <= CorrectCount(df, g, suffix, r)
                         /\ CorrectCount(df, g, suffix, r) <= g.max_correct}

----------------------------------------------------------------------------
(* The claims *)

\* C1: whenever the uploaded file's header is flagged by validate_pii, the run
\* is stopped at the gate with the session state discarded and the offending
\* columns shown: pre_process_scores and run_mastery_analysis do not execute,
\* in the run of the upload and in every later run on the same file.
C1_PiiHardGate ==
    (/\ uploaded_file # "none"
     /\ Files[uploaded_file].parses
     /\ ~PiiVerdict[uploaded_file].is_valid)
    => /\ last_run.pii_flagged /\ last_run.stopped
       /\ last_run.shown_offending = PiiVerdict[uploaded_file].offending_columns
       /\ ~last_run.preprocessed /\ ~last_run.analysed
       /\ ss_keys = {} /\ target_groups = <<>>
       /\ processed_df.is_none /\ question_list = <<>>
       /\ ~rendered.form /\ ~rendered.run_button

\* C1 witness: a flagged file is uploaded and a later run (after a change of
\* the suffix) has been stopped at the gate again.
C1_Witness ==
    /\ uploaded_file = "fPII" /\ score_suffix = sPts
    /\ last_run.pii_flagged /\ last_run.stopped

\* C2: find_question_columns returns exactly, in input order, the column names
\* that end with the suffix with the suffix removed, for every suffix, the
\* empty one included.
C2_ClassifyExact ==
    pc = "classify_out" => c_result = BaseNames(c_columns, c_suffix)

\* C3 as stated: every column name that contains a block-pattern token as a
\* whole word is flagged; "Student ID" is not, "Student Email" is.
C3_TokenAlwaysFlagged ==
    pc = "pii_out" =>
        \A i \in DOMAIN p_columns :
            /\ HasBlockToken(p_columns[i]) =>
                   Flagged(p_columns[i]) /\ ~p_verdict.is_valid
            /\ p_columns[i] = n_StudentID => ~Flagged(p_columns[i])
            /\ p_columns[i] = n_StudentEmail => Flagged(p_columns[i])

\* C3 as amended: every column name that contains a block-pattern token as a
\* whole word and no student-identifier form is flagged; "Student ID" is not,
\* "Student Email" is.
C3_TokenFlaggedUnlessAllowed ==
    pc = "pii_out" =>
        \A i \in DOMAIN p_columns :
            /\ (HasBlockToken(p_columns[i]) /\ ~HasAllowedForm(p_columns[i])) =>
                   Flagged(p_columns[i]) /\ ~p_verdict.is_valid
            /\ p_columns[i] = n_StudentID => ~Flagged(p_columns[i])
            /\ p_columns[i] = n_StudentEmail => Flagged(p_columns[i])

\* C3 witness: "Parent Email Address" has been flagged in a header whose other
\* column, "Home_Phone", is flagged only thanks to the normalisation.
C3_Witness ==
    /\ pc = "pii_out"
    /\ Len(p_columns) = 2 /\ p_columns[1] = n_ParentEmailAddress
    /\ Len(p_verdict.offending_columns) = 2
    /\ ~p_verdict.is_valid

C5_SentinelRangeCountsAll ==
    pc = "mastery_done" =>
        \A i \in DOMAIN m_results.results :
            (/\ m_groups[i].min_correct = 0
             /\ m_groups[i].max_correct = Len(m_groups[i].questions))
            => m_results.results[i].count = m_results.results[i].total

\* C5 witness: a sentinel group over both questions, on two rows of which one
\* has no correct answer and one has both correct; both rows are counted.
C5_Witness ==
    /\ pc = "mastery_done"
    /\ m_raw.cells[2] = <<c_wrong, c_correct>>
    /\ m_raw.cells[3] = <<c_wrong, c_correct>>
    /\ Len(m_groups) = 1
    /\ m_groups[1].questions = <<sQ1, sQ2>>
    /\ m_groups[1].min_correct = 0 /\ m_groups[1].max_correct = 2
    /\ m_results.results[1].count = 2

\* C6: pre_process_scores leaves the caller's table as it was; in the table it
\* returns, the columns are those of the input, every column other than the
\* score columns of the listed questions is the input's, and
\* find_question_columns gives the same question list as on the raw table.
C6_InputTableUntouched ==
    pc \in {"mastery_processed", "mastery_done"} =>
        /\ heap[1] = m_raw
        /\ m_proc.exc = "none" =>
            /\ heap[m_proc.ref].columns = m_raw.columns
            /\ heap[m_proc.ref].nrows = m_raw.nrows
            /\ \A c \in DOMAIN m_raw.columns :
                   (\A q \in DOMAIN m_questions :
                        m_raw.columns[c] # m_questions[q] \o sScore)
                   => heap[m_proc.ref].cells[c] = m_raw.cells[c]
            /\ find_question_columns(heap[m_proc.ref].columns, sScore)
                   = find_question_columns(m_raw.columns, sScore)

\* C6 witness: both score columns of a two-row table have been converted, in a
\* table that is not the caller's.
C6_Witness ==
    /\ pc = "mastery_processed" /\ m_proc.exc = "none"
    /\ m_raw.nrows = 2 /\ m_questions = <<sQ1, sQ2>>
    /\ heap[m_proc.ref].cells[2] # m_raw.cells[2]
    /\ heap[m_proc.ref].cells[3] # m_raw.cells[3]

\* C7: a submitted group with an empty name, no selected question or
\* max_correct above the number of selected questions leaves the stored list
\* as it was, and every stored group has a non-empty name, a non-empty
\* question list and 0 <= min_correct <= max_correct <= number of questions.
C7_StoredGroupsValid ==
    /\ [](\A i \in DOMAIN target_groups : ValidGroup(target_groups[i]))
    /\ [][last_run'.form_outcome \in {"no_name", "no_questions", "threshold"}
            => target_groups' = target_groups]_vars

\* C7 witness: a group is stored and the submission that followed was rejected
\* for its threshold.
C7_Witness ==
    /\ Len(target_groups) = 1
    /\ last_run.form_outcome = "threshold"

\* C8: when no column ends with the suffix, the run clears the session state,
\* warns about the suffix and completes without an uncaught exception.
C8_NoQuestionsNoCrash ==
    last_run.no_questions =>
        /\ last_run.suffix_warning
        /\ ss_keys = {} /\ target_groups = <<>> /\ processed_df.is_none
        /\ last_run.exc = "none"

\* C9: after a run in which the uploaded data could not be parsed, the session
\* holds no processed table and no question list, and that run computed no
\* mastery results.
C9_NoStateAfterParseFailure ==
    last_run.parse_failed =>
        /\ processed_df.is_none /\ question_list = <<>>
        /\ ~last_run.analysed

\* C10: every stored group's questions are among the questions classified for
\* the cached processed table under the current suffix, so that each column
\* question + suffix exists in that table.
C10_GroupsWithinClassified ==
    ~processed_df.is_none =>
        \A i \in DOMAIN target_groups : \A q \in DOMAIN target_groups[i].questions :
            /\ \E k \in DOMAIN find_question_columns(processed_df.df.columns, score_suffix) :
                   find_question_columns(processed_df.df.columns, score_suffix)[k]
                       = target_groups[i].questions[q]
            /\ HasColumn(processed_df.df, target_groups[i].questions[q] \o score_suffix)

====
